---- MODULE Spec2Model ----
(***************************************************************************)
(* Model of the translation request pipeline of clanker-translate:         *)
(* OpenRouterService.translate (retry loop), translateAttempt (one HTTP    *)
(* round trip), parseTranslationResponse and isValidTranslationResponse,   *)
(* buildUserPrompt with the writing-system lookup, and handleTranslate of  *)
(* the TranslationInterface component.                                     *)
(*                                                                         *)
(* JavaScript runs each continuation to its next await without             *)
(* interleaving, so one action is one such run: from the settlement of an  *)
(* awaited promise (fetch, response.json(), the backoff timer) up to the   *)
(* next await, return or throw.                                            *)
(***************************************************************************)
EXTENDS Integers, Sequences, FiniteSets, TLC

VARIABLES
  call,   \* the invocations of OpenRouterService.translate
  ui,     \* the state of the presentation layer (one component)
  pure    \* the argument and the result of a pure helper under check

vars == <<call, ui, pure>>

(***************************************************************************)
(* Program constants                                                       *)
(***************************************************************************)
MAX_RETRIES == 3

\* the two translate() invocations the model follows
Calls == {"a", "b"}

(***************************************************************************)
(* JavaScript values.  A string is a sequence of one-character strings, so *)
(* that trim() is computed and not assumed.                                *)
(***************************************************************************)
Undef == [t |-> "undefined", v |-> <<>>]
Null == [t |-> "null", v |-> <<>>]
Str(s) == [t |-> "string", v |-> s]
Num(s) == [t |-> "number", v |-> s]

Whitespace == {" ", "\n"}

RECURSIVE trimStart(_)
trimStart(s) ==
  IF s # <<>> /\ Head(s) \in Whitespace THEN trimStart(Tail(s)) ELSE s

RECURSIVE trimEnd(_)
trimEnd(s) ==
  IF s # <<>> /\ s[Len(s)] \in Whitespace
    THEN trimEnd(SubSeq(s, 1, Len(s) - 1))
    ELSE s

\* String.prototype.trim
trim(s) == trimEnd(trimStart(s))

\* JavaScript truthiness of a value: !v is ~Truthy(v)
Truthy(x) ==
  CASE x.t = "undefined" -> FALSE
    [] x.t = "null" -> FALSE
    [] x.t = "string" -> x.v # <<>>
    [] x.t = "number" -> x.v \notin {<<"0">>, <<"-", "0">>}
    [] x.t = "boolean" -> x.v = <<"t", "r", "u", "e">>
    [] OTHER -> TRUE

\* typeof x === 'string'
IsString(x) == x.t = "string"

(***************************************************************************)
(* Errors.  An error value carries the property `type` of OpenRouterError  *)
(* ("undefined" when the thrown value has none), the property `name` of    *)
(* Error ("undefined" for the plain objects createError builds),           *)
(* statusCode (0 when undefined) and id, the attempt whose code created    *)
(* the object: it stands for object identity.                              *)
(***************************************************************************)
ErrorKinds == {"auth", "rate_limit", "network", "invalid_response", "unknown"}

createError(type, message, statusCode, id) ==
  [type |-> type, message |-> message, statusCode |-> statusCode,
   name |-> "undefined", id |-> id]

\* lastError = null
NullError ==
  [type |-> "undefined", message |-> "", statusCode |-> 0,
   name |-> "null", id |-> 0]

\* what a failed fetch() or response.json() rejects with
TransportFailure(id) ==
  [type |-> "undefined", message |-> "Failed to fetch", statusCode |-> 0,
   name |-> "TypeError", id |-> id]

\* what fetch() and response.json() reject with once the signal has aborted:
\* a DOMException named AbortError, which has no property `type`
AbortFailure(id) ==
  [type |-> "undefined", message |-> "The operation was aborted",
   statusCode |-> 0, name |-> "AbortError", id |-> id]

\* a TypeError raised by calling a method of undefined
TypeErrorValue(id) ==
  [type |-> "undefined", message |-> "Cannot read properties of undefined",
   statusCode |-> 0, name |-> "TypeError", id |-> id]

\* new Error('Invalid response schema')
InvalidSchemaError(id) ==
  [type |-> "undefined", message |-> "Invalid response schema",
   statusCode |-> 0, name |-> "Error", id |-> id]

(***************************************************************************)
(* Responses                                                               *)
(***************************************************************************)
Response(tr, ex, ts, dl) ==
  [translation |-> tr, explanation |-> ex, transcription |-> ts,
   detectedLanguage |-> dl]

NoResponse == Response(Undef, Undef, Undef, Undef)

\* a slip: the translation is not trimmed before it is compared with ''
isValidNoTrim(response) ==
  IF ~Truthy(response.translation) \/ ~IsString(response.translation)
    THEN FALSE
  ELSE IF response.explanation # Undef /\ ~IsString(response.explanation)
    THEN FALSE
  ELSE IF response.transcription # Undef /\ ~IsString(response.transcription)
    THEN FALSE
  ELSE IF response.detectedLanguage # Undef
          /\ ~IsString(response.detectedLanguage)
    THEN FALSE
  ELSE TRUE

\* a slip: detectedLanguage is not checked
isValidNoDetectedLanguage(response) ==
  IF \/ ~Truthy(response.translation)
     \/ ~IsString(response.translation)
     \/ trim(response.translation.v) = <<>>
    THEN FALSE
  ELSE IF response.explanation # Undef /\ ~IsString(response.explanation)
    THEN FALSE
  ELSE IF response.transcription # Undef /\ ~IsString(response.transcription)
    THEN FALSE
  ELSE TRUE

isValidTranslationResponse(response) ==
  IF \/ ~Truthy(response.translation)
     \/ ~IsString(response.translation)
     \/ trim(response.translation.v) = <<>>
    THEN FALSE
  ELSE IF response.explanation # Undef /\ ~IsString(response.explanation)
    THEN FALSE
  ELSE IF response.transcription # Undef /\ ~IsString(response.transcription)
    THEN FALSE
  ELSE IF response.detectedLanguage # Undef
          /\ ~IsString(response.detectedLanguage)
    THEN FALSE
  ELSE TRUE

(***************************************************************************)
(* The content of the first choice's message.  kind "json": text that      *)
(* JSON.parse turns into the object obj; kind "text": a string (chars)     *)
(* that JSON.parse rejects; kind "undefined": the message has no content.  *)
(***************************************************************************)
JsonContent(obj) == [kind |-> "json", chars |-> <<>>, obj |-> obj]
TextContent(chars) == [kind |-> "text", chars |-> chars, obj |-> NoResponse]
NoContent == [kind |-> "undefined", chars |-> <<>>, obj |-> NoResponse]

\* the result of a call: a returned value or a thrown error
Returned(value) == [kind |-> "return", value |-> value, error |-> NullError]
Threw(error) == [kind |-> "throw", value |-> NoResponse, error |-> error]

\* a slip: an absent explanation becomes the empty string
parseTranslationResponseDefaults(content, id) ==
  CASE content.kind = "json" ->
         Returned(Response(
           IF Truthy(content.obj.translation)
             THEN content.obj.translation ELSE Str(<<>>),
           IF Truthy(content.obj.explanation)
             THEN content.obj.explanation ELSE Str(<<>>),
           content.obj.transcription,
           content.obj.detectedLanguage))
    [] content.kind = "text" ->
         Returned(Response(Str(content.chars), Undef, Undef, Undef))
    [] OTHER -> Threw(TypeErrorValue(id))

\* a slip: a null optional field is returned as absent
parseTranslationResponseNullAbsent(content, id) ==
  CASE content.kind = "json" ->
         Returned(Response(
           IF Truthy(content.obj.translation)
             THEN content.obj.translation ELSE Str(<<>>),
           IF content.obj.explanation = Null
             THEN Undef ELSE content.obj.explanation,
           IF content.obj.transcription = Null
             THEN Undef ELSE content.obj.transcription,
           IF content.obj.detectedLanguage = Null
             THEN Undef ELSE content.obj.detectedLanguage))
    [] content.kind = "text" ->
         Returned(Response(Str(content.chars), Undef, Undef, Undef))
    [] OTHER -> Threw(TypeErrorValue(id))

parseTranslationResponse(content, id) ==
  CASE content.kind = "json" ->
         Returned(Response(
           IF Truthy(content.obj.translation)
             THEN content.obj.translation ELSE Str(<<>>),
           content.obj.explanation,
           content.obj.transcription,
           content.obj.detectedLanguage))
    [] content.kind = "text" ->
         Returned(Response(Str(content.chars), Undef, Undef, Undef))
    \* content.trim() throws in the try block and content.substring() throws
    \* again in the catch block, so the TypeError leaves the function
    [] OTHER -> Threw(TypeErrorValue(id))

(***************************************************************************)
(* translateAttempt: one HTTP round trip                                   *)
(***************************************************************************)
\* response.ok
Ok(status) == status >= 200 /\ status <= 299

\* a slip: an unclassified exception is labelled unknown
translateAttemptCatchUnknown(error, id) ==
  IF error.type # "undefined"
    THEN error
    ELSE createError("unknown", "Network error occurred during translation",
                     0, id)

\* the catch block: a value with a `type` is rethrown, any other becomes network
translateAttemptCatch(error, id) ==
  IF error.type # "undefined"
    THEN error
    ELSE createError("network", "Network error occurred during translation",
                     0, id)

\* fetch() or response.json() rejected with `error`
translateAttemptRejected(error, id) == Threw(translateAttemptCatch(error, id))

\* a slip: 403 is missing from the statuses that mean auth
translateAttemptNotOkOnly401(status, id) ==
  Threw(translateAttemptCatch(
    IF status = 401
      THEN createError("auth", "Invalid API key", status, id)
    ELSE IF status = 429
      THEN createError("rate_limit",
                       "Rate limit exceeded. Please try again later.",
                       status, id)
    ELSE createError("unknown", "Translation request failed with status",
                     status, id),
    id))

\* fetch() resolved with a non-success status
translateAttemptNotOk(status, id) ==
  Threw(translateAttemptCatch(
    IF status = 401 \/ status = 403
      THEN createError("auth", "Invalid API key", status, id)
    ELSE IF status = 429
      THEN createError("rate_limit",
                       "Rate limit exceeded. Please try again later.",
                       status, id)
    ELSE createError("unknown", "Translation request failed with status",
                     status, id),
    id))

\* the decoded body: env tells how much of choices[0].message is there
Data(env, content) == [env |-> env, content |-> content]

\* response.json() resolved with `data`
translateAttemptData(data, id) ==
  IF data.env # "message"
    THEN Threw(translateAttemptCatch(
           createError("invalid_response", "Invalid response format from API",
                       0, id), id))
    ELSE LET r == parseTranslationResponse(data.content, id)
         IN  IF r.kind = "throw"
               THEN Threw(translateAttemptCatch(r.error, id))
               ELSE r

(***************************************************************************)
(* translate: the retry loop.  The state of one invocation:                *)
(*   pc        "idle" (not invoked), "await_fetch", "await_json", "sleep", *)
(*             "returned", "thrown"                                        *)
(*   attempt, lastError      the locals of translate                       *)
(*   result, thrown          what the invocation returned or threw         *)
(*   inflight                HTTP calls issued and not settled             *)
(*   timer                   a backoff timer is set and has not fired      *)
(*   aborted                 the caller's AbortSignal has aborted          *)
(*   abortedAt               the attempt in flight when it aborted, or 0   *)
(*   status                  the status of the response being decoded      *)
(*   trace                   the fetch calls and setTimeout calls, in order*)
(*   log                     per settled attempt, what the gateway did,    *)
(*                           what translateAttempt returned or threw, and  *)
(*                           whether it had called response.json()         *)
(***************************************************************************)
FetchEv == [ev |-> "fetch", ms |-> 0]
SleepEv(ms) == [ev |-> "sleep", ms |-> ms]

RECURSIVE Pow2(_)
\* Math.pow(2, n)
Pow2(n) == IF n <= 0 THEN 1 ELSE 2 * Pow2(n - 1)

\* a slip: the exponent off by one
BackoffMsOffByOne(attempt) == Pow2(attempt) * 1000

\* Math.pow(2, attempt - 1) * 1000
BackoffMs(attempt) == Pow2(attempt - 1) * 1000

InitCall ==
  [pc |-> "idle", attempt |-> 0, lastError |-> NullError,
   result |-> NoResponse, thrown |-> NullError,
   inflight |-> 0, timer |-> FALSE, aborted |-> FALSE, abortedAt |-> 0,
   status |-> 0, trace |-> <<>>, log |-> <<>>]

\* translateAttempt runs synchronously up to its await of fetch()
IssueFetch(s) ==
  [s EXCEPT !.pc = "await_fetch", !.inflight = @ + 1,
            !.trace = Append(@, FetchEv)]

\* the code after the loop: throw lastError || createError('unknown', ...)
ExitLoop(s) ==
  [s EXCEPT !.pc = "thrown",
            !.thrown = IF s.lastError # NullError
                         THEN s.lastError
                         ELSE createError("unknown",
                                "Translation failed after multiple attempts",
                                0, 0)]

\* the loop condition attempt <= MAX_RETRIES and the call of translateAttempt
LoopHead(s) == IF s.attempt <= MAX_RETRIES THEN IssueFetch(s) ELSE ExitLoop(s)

\* attempt++ and the next iteration
NextIteration(s) == LoopHead([s EXCEPT !.attempt = @ + 1])

\* a slip: a response that fails the shape check records no error
translateOnReturnNoRecord(s, result) ==
  IF isValidTranslationResponse(result)
    THEN [s EXCEPT !.pc = "returned", !.result = result]
    ELSE NextIteration(s)

\* translateAttempt returned `result`: the schema check of the try block
translateOnReturn(s, result) ==
  IF isValidTranslationResponse(result)
    THEN [s EXCEPT !.pc = "returned", !.result = result]
    ELSE NextIteration([s EXCEPT !.lastError = InvalidSchemaError(s.attempt)])

\* a slip: rate_limit is missing from the errors that are not retried
translateOnThrowRetryRateLimit(s, error) ==
  LET s1 == [s EXCEPT !.lastError = error]
  IN  IF \/ error.type = "auth"
         \/ error.name = "AbortError"
        THEN [s1 EXCEPT !.pc = "thrown", !.thrown = error]
      ELSE IF s.attempt = MAX_RETRIES
        THEN ExitLoop(s1)
      ELSE [s1 EXCEPT !.pc = "sleep", !.timer = TRUE,
                      !.trace = Append(@, SleepEv(BackoffMs(s.attempt)))]

\* a slip: the loop gives up one attempt early
translateOnThrowBreakEarly(s, error) ==
  LET s1 == [s EXCEPT !.lastError = error]
  IN  IF \/ error.type = "auth"
         \/ error.type = "rate_limit"
         \/ error.name = "AbortError"
        THEN [s1 EXCEPT !.pc = "thrown", !.thrown = error]
      ELSE IF s.attempt = MAX_RETRIES - 1
        THEN ExitLoop(s1)
      ELSE [s1 EXCEPT !.pc = "sleep", !.timer = TRUE,
                      !.trace = Append(@, SleepEv(BackoffMs(s.attempt)))]

\* a slip: the backoff promise is not awaited
translateOnThrowNoAwait(s, error) ==
  LET s1 == [s EXCEPT !.lastError = error]
  IN  IF \/ error.type = "auth"
         \/ error.type = "rate_limit"
         \/ error.name = "AbortError"
        THEN [s1 EXCEPT !.pc = "thrown", !.thrown = error]
      ELSE IF s.attempt = MAX_RETRIES
        THEN ExitLoop(s1)
      ELSE NextIteration(
             [s1 EXCEPT !.timer = TRUE,
                        !.trace = Append(@, SleepEv(BackoffMs(s.attempt)))])

\* a slip: the check for the last attempt is missing
translateOnThrowSleepAfterLast(s, error) ==
  LET s1 == [s EXCEPT !.lastError = error]
  IN  IF \/ error.type = "auth"
         \/ error.type = "rate_limit"
         \/ error.name = "AbortError"
        THEN [s1 EXCEPT !.pc = "thrown", !.thrown = error]
      ELSE [s1 EXCEPT !.pc = "sleep", !.timer = TRUE,
                      !.trace = Append(@, SleepEv(BackoffMs(s.attempt)))]

\* a slip: the catch block does not record the error
translateOnThrowNoRecord(s, error) ==
  IF \/ error.type = "auth"
     \/ error.type = "rate_limit"
     \/ error.name = "AbortError"
    THEN [s EXCEPT !.pc = "thrown", !.thrown = error]
  ELSE IF s.attempt = MAX_RETRIES
    THEN ExitLoop(s)
  ELSE [s EXCEPT !.pc = "sleep", !.timer = TRUE,
                 !.trace = Append(@, SleepEv(BackoffMs(s.attempt)))]

\* translateAttempt threw `error`: the catch block
translateOnThrow(s, error) ==
  LET s1 == [s EXCEPT !.lastError = error]
  IN  IF \/ error.type = "auth"
         \/ error.type = "rate_limit"
         \/ error.name = "AbortError"
        THEN [s1 EXCEPT !.pc = "thrown", !.thrown = error]
      ELSE IF s.attempt = MAX_RETRIES
        THEN ExitLoop(s1)
      ELSE [s1 EXCEPT !.pc = "sleep", !.timer = TRUE,
                      !.trace = Append(@, SleepEv(BackoffMs(s.attempt)))]

\* the awaited translateAttempt settled with `res`, after the gateway did `gw`
translateOnSettle(s, gw, res) ==
  LET s1 == [s EXCEPT !.inflight = @ - 1,
                      !.log = Append(@, [gw |-> gw, res |-> res,
                                         read |-> s.pc = "await_json"])]
  IN  IF res.kind = "return"
        THEN translateOnReturn(s1, res.value)
        ELSE translateOnThrow(s1, res.error)

(***************************************************************************)
(* What the gateway may answer: the inputs of the model                    *)
(***************************************************************************)
Statuses == {200, 401, 403, 404, 429, 500}

Hi == Str(<<"h", "i">>)

\* the longest sample string
MaxLen == 2

Chars == {" ", "\n", "h"}

\* every string over Chars of at most MaxLen characters; none of them is JSON
SampleStrings == UNION {[1..n -> Chars] : n \in 0..MaxLen}

SampleTranslations ==
  {Undef, Null, Hi, Num(<<"5">>), Num(<<"0">>)}
    \cup {Str(x) : x \in SampleStrings}

SampleOptionals == {Null, Str(<<>>), Str(<<"x">>), Num(<<"5">>)}

\* the objects a JSON content decodes to
SampleObjects ==
  {Response(t, Undef, Undef, Undef) : t \in SampleTranslations}
    \cup {Response(Hi, x, Undef, Undef) : x \in SampleOptionals}
    \cup {Response(Hi, Undef, x, Undef) : x \in SampleOptionals}
    \cup {Response(Hi, Undef, Undef, x) : x \in SampleOptionals}
    \cup {Response(Hi, Str(<<"e">>), Str(<<"k">>), Str(<<"e", "n">>))}

SampleContents ==
  {JsonContent(o) : o \in SampleObjects}
    \cup {TextContent(x) : x \in SampleStrings}
    \cup {NoContent}

SampleData ==
  {Data(e, NoContent) : e \in {"no_choices", "empty_choices", "no_message"}}
    \cup {Data("message", c) : c \in SampleContents}

\* what the gateway did in one attempt, as the log records it
GwRejected == [o |-> "rejected", status |-> 0, data |-> Data("none", NoContent)]
GwAborted == [o |-> "aborted", status |-> 0, data |-> Data("none", NoContent)]
GwStatus(status) ==
  [o |-> "status", status |-> status, data |-> Data("none", NoContent)]
GwUndecodable(status) ==
  [o |-> "undecodable", status |-> status, data |-> Data("none", NoContent)]
GwData(status, data) == [o |-> "data", status |-> status, data |-> data]

(***************************************************************************)
(* Actions                                                                 *)
(***************************************************************************)
\* a slip: attempt and lastError kept in static fields of the class, which
\* every invocation reads and writes
StepSharedLocals(c, s) ==
  /\ call' = [d \in Calls |->
                IF d = c THEN s
                ELSE [call[d] EXCEPT !.attempt = s.attempt,
                                     !.lastError = s.lastError]]
  /\ UNCHANGED <<ui, pure>>

\* one run of invocation c to its next await: it writes its own locals only
Step(c, s) ==
  /\ call' = [call EXCEPT ![c] = s]
  /\ UNCHANGED <<ui, pure>>

\* translate(request, signal) is called: let lastError = null, attempt = 1
Invoke(c) ==
  /\ call[c].pc = "idle"
  /\ Step(c, LoopHead([call[c] EXCEPT !.lastError = NullError,
                                      !.attempt = 1]))

\* the caller aborts the signal it passed to translate
Abort(c) ==
  /\ call[c].pc \in {"await_fetch", "await_json", "sleep"}
  /\ ~call[c].aborted
  /\ Step(c, [call[c] EXCEPT !.aborted = TRUE,
                !.abortedAt = IF call[c].pc = "sleep" THEN 0
                              ELSE call[c].attempt])

\* fetch() rejects: a transport failure
FetchRejects(c) ==
  /\ call[c].pc = "await_fetch"
  /\ ~call[c].aborted
  /\ Step(c, translateOnSettle(call[c], GwRejected,
               translateAttemptRejected(TransportFailure(call[c].attempt),
                                        call[c].attempt)))

\* fetch() rejects because the signal has aborted
FetchAborted(c) ==
  /\ call[c].pc = "await_fetch"
  /\ call[c].aborted
  /\ Step(c, translateOnSettle(call[c], GwAborted,
               translateAttemptRejected(AbortFailure(call[c].attempt),
                                        call[c].attempt)))

\* fetch() resolves with a response of the given status
FetchResponds(c, status) ==
  /\ call[c].pc = "await_fetch"
  /\ ~call[c].aborted
  /\ IF Ok(status)
       THEN Step(c, [call[c] EXCEPT !.pc = "await_json",
                                    !.status = status])
       ELSE Step(c, translateOnSettle(call[c], GwStatus(status),
                      translateAttemptNotOk(status, call[c].attempt)))

\* response.json() rejects: the body is not JSON
JsonRejects(c) ==
  /\ call[c].pc = "await_json"
  /\ ~call[c].aborted
  /\ Step(c, translateOnSettle(call[c], GwUndecodable(call[c].status),
               translateAttemptRejected(TransportFailure(call[c].attempt),
                                        call[c].attempt)))

\* response.json() rejects because the signal has aborted
JsonAborted(c) ==
  /\ call[c].pc = "await_json"
  /\ call[c].aborted
  /\ Step(c, translateOnSettle(call[c], GwAborted,
               translateAttemptRejected(AbortFailure(call[c].attempt),
                                        call[c].attempt)))

\* response.json() resolves with the decoded body
JsonResolves(c, data) ==
  /\ call[c].pc = "await_json"
  /\ ~call[c].aborted
  /\ Step(c, translateOnSettle(call[c], GwData(call[c].status, data),
               translateAttemptData(data, call[c].attempt)))

\* the backoff timer fires and the loop goes on
TimerFires(c) ==
  /\ call[c].pc = "sleep"
  /\ call[c].timer
  /\ Step(c, NextIteration([call[c] EXCEPT !.timer = FALSE]))

(***************************************************************************)
(* Spec: one invocation of translate against every sample answer           *)
(***************************************************************************)
\* no component is mounted and no helper is under check
UiOff == [mounted |-> FALSE]
PureOff == [fn |-> "none"]

Init ==
  /\ call = [c \in Calls |-> InitCall]
  /\ ui = UiOff
  /\ pure = PureOff

Single == {"a"}

Next ==
  \E c \in Single :
    \/ Invoke(c)
    \/ Abort(c)
    \/ FetchRejects(c)
    \/ FetchAborted(c)
    \/ \E status \in Statuses : FetchResponds(c, status)
    \/ JsonRejects(c)
    \/ JsonAborted(c)
    \/ \E data \in SampleData : JsonResolves(c, data)
    \/ TimerFires(c)

Spec == Init /\ [][Next]_vars

(***************************************************************************)
(* Reading a call's history                                                *)
(***************************************************************************)
Finished(s) == s.pc \in {"returned", "thrown"}

\* the number of fetch() calls made so far
NumFetch(tr) == Cardinality({i \in DOMAIN tr : tr[i].ev = "fetch"})

\* the position in the trace of the n-th fetch() call
FetchPos(tr, n) ==
  CHOOSE i \in DOMAIN tr :
    /\ tr[i].ev = "fetch"
    /\ Cardinality({j \in 1..i : tr[j].ev = "fetch"}) = n

\* what the trace holds after the n-th fetch() call and before the next one
Segment(tr, n) ==
  SubSeq(tr, FetchPos(tr, n) + 1,
         IF NumFetch(tr) > n THEN FetchPos(tr, n + 1) - 1 ELSE Len(tr))

IsPrefix(p, q) == Len(p) <= Len(q) /\ p = SubSeq(q, 1, Len(p))

\* attempt n threw an error of one of the given kinds
ThrewKind(s, n, kinds) ==
  /\ s.log[n].res.kind = "throw"
  /\ s.log[n].res.error.type \in kinds

\* attempt n returned a response that is not a string with a non-blank text
ReturnedBlank(s, n) ==
  /\ s.log[n].res.kind = "return"
  /\ s.log[n].res.value.translation.t = "string"
  /\ \A i \in DOMAIN s.log[n].res.value.translation.v :
       s.log[n].res.value.translation.v[i] \in Whitespace

\* attempt n got a success status and a body that failed the shape check
ReturnedInvalid(s, n) ==
  /\ s.log[n].res.kind = "return"
  /\ ~isValidTranslationResponse(s.log[n].res.value)

RetryCeilingTrace ==
  <<FetchEv, SleepEv(1000), FetchEv, SleepEv(2000), FetchEv>>

(***************************************************************************)
(* C1: if every attempt of a call fails with a network error, the call     *)
(* makes exactly 3 HTTP attempts, sleeps 1 s after the first and 2 s after *)
(* the second, and throws the error the third attempt produced.            *)
(***************************************************************************)
C1_RetryCeiling ==
  \A c \in Calls :
    LET s == call[c] IN
    (Len(s.log) >= 1 /\ \A n \in DOMAIN s.log : ThrewKind(s, n, {"network"}))
      => /\ IsPrefix(s.trace, RetryCeilingTrace)
         /\ Len(s.trace) >= 2 * Len(s.log) - (IF Len(s.log) = 3 THEN 1 ELSE 0)
         /\ Finished(s) =>
              /\ Len(s.log) = 3
              /\ s.trace = RetryCeilingTrace
              /\ s.pc = "thrown"
              /\ s.thrown = s.log[3].res.error
              /\ s.thrown.id = 3

C1_Witness ==
  \E c \in Calls :
    /\ call[c].pc = "thrown"
    /\ Len(call[c].log) = 3
    /\ \A n \in 1..3 : ThrewKind(call[c], n, {"network"})
    /\ ~call[c].aborted

(***************************************************************************)
(* C2: when the caller's signal aborts the HTTP call in flight during      *)
(* attempt n, translate rethrows the abort (name AbortError), makes no     *)
(* further HTTP attempt and starts no backoff sleep.                       *)
(***************************************************************************)
C2_AbortRethrown ==
  \A c \in Calls :
    LET s == call[c] IN
    (s.abortedAt > 0 /\ Len(s.log) >= s.abortedAt)
      => /\ s.pc = "thrown"
         /\ s.thrown.name = "AbortError"
         /\ s.thrown.type # "network"
         /\ NumFetch(s.trace) = s.abortedAt
         /\ Segment(s.trace, s.abortedAt) = <<>>

(***************************************************************************)
(* C3: an auth or rate_limit error thrown by attempt n (any n in 1..3) is  *)
(* thrown by translate at once: no further HTTP attempt, no backoff sleep. *)
(***************************************************************************)
C3_NoRetryClasses ==
  \A c \in Calls :
    LET s == call[c] IN
    \A n \in DOMAIN s.log :
      ThrewKind(s, n, {"auth", "rate_limit"})
        => /\ Len(s.log) = n
           /\ s.pc = "thrown"
           /\ s.thrown = s.log[n].res.error
           /\ s.thrown.id = n
           /\ NumFetch(s.trace) = n
           /\ Segment(s.trace, n) = <<>>
           /\ s.inflight = 0
           /\ ~s.timer

C3_Witness ==
  \E c \in Calls :
    /\ Len(call[c].log) = 2
    /\ ThrewKind(call[c], 2, {"rate_limit"})
    /\ call[c].pc = "thrown"

(***************************************************************************)
(* C4: every call that is not cancelled ends by returning a response that  *)
(* passes shape validation or by throwing a classified error, whose kind   *)
(* is auth, rate_limit, network, invalid_response or unknown.              *)
(***************************************************************************)
C4_ValidOrClassified ==
  \A c \in Calls :
    LET s == call[c] IN
    (Finished(s) /\ ~s.aborted)
      => \/ s.pc = "returned" /\ isValidTranslationResponse(s.result)
         \/ s.pc = "thrown" /\ s.thrown.type \in ErrorKinds

(***************************************************************************)
(* C5: when attempt n < 3 returns a response that fails shape validation,  *)
(* translate waits 2^(n-1) seconds before it starts attempt n+1.           *)
(***************************************************************************)
C5_SchemaInvalidBackoff ==
  \A c \in Calls :
    LET s == call[c] IN
    \A n \in DOMAIN s.log :
      (n < MAX_RETRIES /\ ReturnedInvalid(s, n))
        => Segment(s.trace, n) = <<SleepEv(2 ^ (n - 1) * 1000)>>

(***************************************************************************)
(* C6: when attempt n < 3 throws a classified error other than auth and    *)
(* rate_limit and the call was not cancelled, translate sleeps 2^(n-1)     *)
(* seconds and then makes attempt n+1; HTTP 500 twice and then HTTP 200    *)
(* with a valid body resolves after 3 attempts and two sleeps.             *)
(***************************************************************************)
C6_RetryableBackoff ==
  \A c \in Calls :
    LET s == call[c] IN
    /\ \A n \in DOMAIN s.log :
         (/\ n < 3
          /\ ThrewKind(s, n, {"network", "unknown", "invalid_response"})
          /\ ~s.aborted)
           => /\ Segment(s.trace, n) = <<SleepEv(2 ^ (n - 1) * 1000)>>
              /\ \/ s.pc = "sleep" /\ s.timer /\ s.attempt = n
                    /\ NumFetch(s.trace) = n
                 \/ NumFetch(s.trace) >= n + 1
    /\ (/\ Len(s.log) = 3
        /\ s.log[1].gw = GwStatus(500)
        /\ s.log[2].gw = GwStatus(500)
        /\ s.log[3].gw.o = "data"
        /\ s.log[3].gw.status = 200
        /\ s.log[3].res.kind = "return"
        /\ isValidTranslationResponse(s.log[3].res.value))
         => /\ s.pc = "returned"
            /\ s.result = s.log[3].res.value
            /\ s.trace = RetryCeilingTrace

C6_Witness ==
  \E c \in Calls :
    /\ call[c].pc = "returned"
    /\ Len(call[c].log) = 3
    /\ call[c].log[1].gw = GwStatus(500)
    /\ call[c].log[2].gw = GwStatus(500)
    /\ call[c].log[3].gw.status = 200
    /\ ~call[c].aborted

(***************************************************************************)
(* C7: a response whose parsed translation is empty or whitespace only is  *)
(* never returned as success; the attempt counts as failed and uses up one *)
(* of the 3 attempts, so a gateway that always answers so causes exactly 3 *)
(* HTTP attempts and then a thrown failure.                                *)
(***************************************************************************)
C7_BlankTranslationRejected ==
  \A c \in Calls :
    LET s == call[c] IN
    /\ NumFetch(s.trace) <= 3
    /\ \A n \in DOMAIN s.log :
         ReturnedBlank(s, n)
           => /\ ~(s.pc = "returned" /\ Len(s.log) = n)
              /\ n < 3 => NumFetch(s.trace) >= n + 1
              /\ n = 3 => s.pc = "thrown" /\ s.thrown # NullError
    /\ (Len(s.log) >= 1 /\ \A n \in DOMAIN s.log : ReturnedBlank(s, n))
         => /\ s.pc \in {"await_fetch", "await_json", "thrown"}
            /\ s.pc = "thrown" <=> Len(s.log) = 3

C7_Witness ==
  \E c \in Calls :
    /\ call[c].pc = "thrown"
    /\ Len(call[c].log) = 3
    /\ NumFetch(call[c].trace) = 3
    /\ \A n \in 1..3 : ReturnedBlank(call[c], n)
    /\ call[c].log[1].res.value.translation.v = <<"\n", " ">>

(***************************************************************************)
(* C8: every response translate returns has a translation that is a string *)
(* and is not blank, and explanation, transcription and detectedLanguage   *)
(* are each absent or a string.                                            *)
(***************************************************************************)
C8_ReturnedShape ==
  \A c \in Calls :
    LET s == call[c] IN
    s.pc = "returned"
      => /\ s.result.translation.t = "string"
         /\ \E i \in DOMAIN s.result.translation.v :
              s.result.translation.v[i] \notin Whitespace
         /\ \A f \in {"explanation", "transcription", "detectedLanguage"} :
              s.result[f].t \in {"undefined", "string"}

C8_Witness ==
  \E c \in Calls :
    /\ call[c].pc = "returned"
    /\ call[c].result.translation = Str(<<" ", "h">>)
    /\ Len(call[c].log) = 2

(***************************************************************************)
(* C9: within one call at most one HTTP call is outstanding at any time;   *)
(* attempt n+1 is issued only after attempt n has settled and the backoff  *)
(* sleep that follows it has fully elapsed.                                *)
(***************************************************************************)
C9_SequentialAttempts ==
  \A c \in Calls :
    LET s == call[c] IN
    /\ s.inflight \in {0, 1}
    /\ NumFetch(s.trace) = Len(s.log) + s.inflight
    /\ s.timer => /\ s.inflight = 0
                  /\ s.trace # <<>>
                  /\ s.trace[Len(s.trace)].ev = "sleep"

C9_Witness ==
  \E c \in Calls :
    /\ call[c].inflight = 1
    /\ ~call[c].timer
    /\ Len(call[c].trace) = 3
    /\ call[c].trace[2] = SleepEv(1000)

(***************************************************************************)
(* SpecTwo: two invocations of translate, interleaved at their awaits,     *)
(* each against a few answers of the gateway                               *)
(***************************************************************************)
StatusesTwo == {200, 401, 500}

DataTwo ==
  {Data("message", JsonContent(Response(Hi, Undef, Undef, Undef))),
   Data("message", JsonContent(Response(Str(<<>>), Undef, Undef, Undef)))}

NextTwo ==
  \E c \in Calls :
    \/ Invoke(c)
    \/ Abort(c)
    \/ FetchRejects(c)
    \/ FetchAborted(c)
    \/ \E status \in StatusesTwo : FetchResponds(c, status)
    \/ JsonAborted(c)
    \/ \E data \in DataTwo : JsonResolves(c, data)
    \/ TimerFires(c)

SpecTwo == Init /\ [][NextTwo]_vars

\* attempt n threw an error that translate retries
Retried(s, n) ==
  /\ n < 3
  /\ ThrewKind(s, n, {"network", "unknown", "invalid_response"})

RECURSIVE AloneTrace(_, _)
\* the fetch and sleep calls of a call that ran alone through the first n
\* entries of the log of s
AloneTrace(s, n) ==
  IF n = 0 THEN <<>>
  ELSE AloneTrace(s, n - 1) \o <<FetchEv>>
         \o (IF Retried(s, n) THEN <<SleepEv(2 ^ (n - 1) * 1000)>> ELSE <<>>)

\* the error a call that ran alone holds after the log of s
AloneLastError(s) ==
  LET last == Len(s.log)
      m == IF last > 0 /\ s.log[last].res.kind = "return"
                /\ ~ReturnedInvalid(s, last)
             THEN last - 1 ELSE last
  IN  IF m = 0 THEN NullError
      ELSE IF s.log[m].res.kind = "throw" THEN s.log[m].res.error
      ELSE InvalidSchemaError(m)

(***************************************************************************)
(* C10: two interleaved invocations share no state: the attempt counter,   *)
(* the last error, the HTTP attempts, the backoff sleeps and the outcome   *)
(* of each are what its own gateway answers alone determine.               *)
(***************************************************************************)
C10_CallsIndependent ==
  \A c \in Calls :
    LET s == call[c]
        last == Len(s.log)
    IN  /\ s.trace = AloneTrace(s, last)
                       \o (IF s.inflight = 1 THEN <<FetchEv>> ELSE <<>>)
        /\ s.lastError = AloneLastError(s)
        /\ \/ s.attempt = NumFetch(s.trace)
           \/ s.pc = "thrown" /\ s.attempt = 4 /\ ReturnedInvalid(s, 3)
        /\ s.inflight = (IF s.pc \in {"await_fetch", "await_json"} THEN 1 ELSE 0)
        /\ s.pc = "sleep" <=> (last > 0 /\ Retried(s, last) /\ s.timer)
        /\ s.pc = "returned"
             <=> (last > 0 /\ s.log[last].res.kind = "return"
                    /\ ~ReturnedInvalid(s, last))
        /\ s.pc = "returned" => s.result = s.log[last].res.value
        /\ s.pc = "thrown"
             <=> /\ last > 0
                 /\ \/ ThrewKind(s, last, {"auth", "rate_limit"})
                    \/ last = 3 /\ s.log[3].res.kind = "throw"
                    \/ last = 3 /\ ReturnedInvalid(s, 3)
        /\ s.pc = "thrown" => s.thrown = AloneLastError(s)

\* both calls are under way, one in its second attempt after a backoff and
\* the other thrown after three attempts
C10_Witness ==
  /\ call["a"].pc = "await_fetch"
  /\ call["a"].attempt = 2
  /\ call["a"].trace = <<FetchEv, SleepEv(1000), FetchEv>>
  /\ call["b"].pc = "thrown"
  /\ Len(call["b"].log) = 3
  /\ call["b"].lastError # call["a"].lastError

(***************************************************************************)
(* C11: an attempt that receives a non-success status throws at once,      *)
(* without reading the body, an error of kind auth for 401 and 403,        *)
(* rate_limit for 429 and unknown for any other status, whose statusCode   *)
(* is the status received.                                                 *)
(***************************************************************************)
C11_StatusClassified ==
  \A c \in Calls :
    LET s == call[c] IN
    \A n \in DOMAIN s.log :
      s.log[n].gw.o = "status"
        => /\ ~s.log[n].read
           /\ s.log[n].res.kind = "throw"
           /\ s.log[n].res.error.statusCode = s.log[n].gw.status
           /\ s.log[n].res.error.id = n
           /\ s.log[n].res.error.type =
                (CASE s.log[n].gw.status \in {401, 403} -> "auth"
                   [] s.log[n].gw.status = 429 -> "rate_limit"
                   [] OTHER -> "unknown")

C11_Witness ==
  \E c \in Calls :
    /\ Len(call[c].log) = 3
    /\ call[c].log[1].gw = GwStatus(404)
    /\ call[c].log[2].gw = GwStatus(500)
    /\ call[c].log[3].gw = GwStatus(403)
    /\ call[c].thrown.statusCode = 403

(***************************************************************************)
(* C12: an attempt that receives a success status whose body lacks any     *)
(* part of choices[0].message.content (no choices, an empty list, no       *)
(* message, a message without content) throws invalid_response.            *)
(***************************************************************************)
C12_EnvelopeInvalidResponse ==
  \A c \in Calls :
    LET s == call[c] IN
    \A n \in DOMAIN s.log :
      (/\ s.log[n].gw.o = "data"
       /\ Ok(s.log[n].gw.status)
       /\ \/ s.log[n].gw.data.env # "message"
          \/ s.log[n].gw.data.content = NoContent)
        => /\ s.log[n].res.kind = "throw"
           /\ s.log[n].res.error.type = "invalid_response"

FirstAnswerGood(s) ==
  /\ Len(s.log) >= 1
  /\ s.log[1].gw.o = "data"
  /\ s.log[1].gw.status = 200
  /\ s.log[1].gw.data.env = "message"
  /\ s.log[1].gw.data.content.kind = "json"
  /\ LET obj == s.log[1].gw.data.content.obj
     IN  /\ obj.translation.t = "string"
         /\ \E i \in DOMAIN obj.translation.v :
              obj.translation.v[i] \notin Whitespace
         /\ obj.explanation.t \in {"string", "undefined"}
         /\ obj.transcription.t \in {"string", "undefined"}

ReturnedFirstAnswer(s) ==
  LET obj == s.log[1].gw.data.content.obj
  IN  /\ s.pc = "returned"
      /\ s.trace = <<FetchEv>>
      /\ Len(s.log) = 1
      /\ s.result.translation = obj.translation
      /\ s.result.explanation = obj.explanation
      /\ s.result.transcription = obj.transcription

\* the claim as stated
C14_FirstAnswerReturned ==
  \A c \in Calls : FirstAnswerGood(call[c]) => ReturnedFirstAnswer(call[c])

\* the claim as amended: detectedLanguage, too, is a string or absent
C14_FirstAnswerReturnedAmended ==
  \A c \in Calls :
    (/\ FirstAnswerGood(call[c])
     /\ call[c].log[1].gw.data.content.obj.detectedLanguage.t
          \in {"string", "undefined"})
      => /\ ReturnedFirstAnswer(call[c])
         /\ call[c].result.detectedLanguage
              = call[c].log[1].gw.data.content.obj.detectedLanguage

C14_Witness ==
  \E c \in Calls :
    /\ call[c].pc = "returned"
    /\ call[c].trace = <<FetchEv>>
    /\ call[c].result =
         Response(Hi, Str(<<"e">>), Str(<<"k">>), Str(<<"e", "n">>))

(***************************************************************************)
(* SpecUI: one TranslationInterface component and the translate calls its  *)
(* handleTranslate makes.  The state of the component:                     *)
(*   mounted        the component is mounted; React drops the state        *)
(*                  updates of an unmounted component                      *)
(*   isTranslating, error, shown     its useState values                   *)
(*   controller     abortControllerRef.current: "none", the call whose     *)
(*                  signal it holds, or "unused" (no call was made)        *)
(*   pending        the calls a suspended handleTranslate awaits           *)
(*   settled        the calls whose handleTranslate has run to its end     *)
(*   caught         per call, the value handleTranslate caught             *)
(*   setErrorLog    the calls of setError made in the catch block          *)
(*   abortedInFlight  the calls aborted before they returned or threw      *)
(***************************************************************************)
\* setError('Please enter your API key')
ApiKeyMissing ==
  [type |-> "undefined", message |-> "Please enter your API key",
   statusCode |-> 0, name |-> "string", id |-> 0]

InitUi ==
  [mounted |-> TRUE, isTranslating |-> FALSE, error |-> NullError,
   shown |-> NoResponse, controller |-> "none", pending |-> {},
   settled |-> {}, caught |-> [c \in Calls |-> NullError],
   setErrorLog |-> <<>>, abortedInFlight |-> {}]

\* a useState setter: no effect once the component is unmounted
SetState(u, field, value) ==
  IF u.mounted THEN [u EXCEPT ![field] = value] ELSE u

\* AbortController.abort() on the signal passed to invocation s
abortSignal(s) ==
  IF s.aborted THEN s
  ELSE [s EXCEPT !.aborted = TRUE,
                 !.abortedAt = IF s.pc \in {"await_fetch", "await_json"}
                                 THEN s.attempt ELSE 0]

\* abortControllerRef.current.abort(), if there is a controller
abortCurrent(u, calls) ==
  IF u.controller \in Calls
    THEN [calls EXCEPT ![u.controller] = abortSignal(@)]
    ELSE calls

noteAbort(u) ==
  IF u.controller \in Calls /\ ~Finished(call[u.controller])
       /\ ~call[u.controller].aborted
    THEN [u EXCEPT !.abortedInFlight = @ \cup {u.controller}]
    ELSE u

\* a slip: the translate button is not disabled while isTranslating
HandleTranslateAlwaysEnabled(c, hasKey) ==
  /\ ui.mounted
  /\ call[c].pc = "idle"
  /\ pure' = pure
  /\ LET u1 == SetState(noteAbort(ui), "error", NullError)
         calls1 == abortCurrent(ui, call)
     IN  IF ~hasKey
           THEN /\ ui' = [SetState(u1, "error", ApiKeyMissing)
                            EXCEPT !.controller = "unused"]
                /\ call' = calls1
           ELSE /\ ui' = [SetState(u1, "isTranslating", TRUE)
                            EXCEPT !.controller = c,
                                   !.pending = @ \cup {c}]
                /\ call' = [calls1 EXCEPT ![c] =
                              LoopHead([@ EXCEPT !.lastError = NullError,
                                                 !.attempt = 1])]

\* a click on the translate button, which is disabled while isTranslating;
\* hasKey: the apiKey prop is not empty
HandleTranslate(c, hasKey) ==
  /\ ui.mounted
  /\ ~ui.isTranslating
  /\ call[c].pc = "idle"
  /\ pure' = pure
  /\ LET u1 == SetState(noteAbort(ui), "error", NullError)
         calls1 == abortCurrent(ui, call)
     IN  IF ~hasKey
           THEN /\ ui' = [SetState(u1, "error", ApiKeyMissing)
                            EXCEPT !.controller = "unused"]
                /\ call' = calls1
           ELSE /\ ui' = [SetState(u1, "isTranslating", TRUE)
                            EXCEPT !.controller = c,
                                   !.pending = @ \cup {c}]
                /\ call' = [calls1 EXCEPT ![c] =
                              LoopHead([@ EXCEPT !.lastError = NullError,
                                                 !.attempt = 1])]

\* the catch block of handleTranslate
handleTranslateCatch(u, c, err) ==
  LET u1 == [u EXCEPT !.caught[c] = err]
  IN  IF err.name = "AbortError"
        THEN u1
        ELSE [SetState(u1, "error", err)
                EXCEPT !.setErrorLog = Append(@, [by |-> c, error |-> err])]

\* the finally block of handleTranslate
handleTranslateFinally(u, c) ==
  [SetState(u, "isTranslating", FALSE)
     EXCEPT !.controller = "none", !.pending = @ \ {c},
            !.settled = @ \cup {c}]

\* translate has returned or thrown and handleTranslate resumes
HandleTranslateSettles(c) ==
  /\ c \in ui.pending
  /\ Finished(call[c])
  /\ UNCHANGED <<call, pure>>
  /\ ui' = handleTranslateFinally(
             IF call[c].pc = "returned"
               THEN SetState(ui, "shown",
                      Response(call[c].result.translation,
                        IF Truthy(call[c].result.explanation)
                          THEN call[c].result.explanation ELSE Str(<<>>),
                        IF Truthy(call[c].result.transcription)
                          THEN call[c].result.transcription ELSE Str(<<>>),
                        Undef))
               ELSE handleTranslateCatch(ui, c, call[c].thrown),
             c)

\* the component unmounts: the cleanup of its effect aborts the controller
Unmount ==
  /\ ui.mounted
  /\ pure' = pure
  /\ call' = abortCurrent(ui, call)
  /\ ui' = [noteAbort(ui) EXCEPT !.mounted = FALSE]

InitUI ==
  /\ call = [c \in Calls |-> InitCall]
  /\ ui = InitUi
  /\ pure = PureOff

NextUI ==
  \/ \E c \in Calls, hasKey \in BOOLEAN : HandleTranslate(c, hasKey)
  \/ \E c \in Calls : HandleTranslateSettles(c)
  \/ Unmount
  \/ \E c \in Calls :
       \/ FetchRejects(c)
       \/ FetchAborted(c)
       \/ \E status \in StatusesTwo : FetchResponds(c, status)
       \/ JsonAborted(c)
       \/ \E data \in DataTwo : JsonResolves(c, data)
       \/ TimerFires(c)

SpecUI == InitUI /\ [][NextUI]_vars

(***************************************************************************)
(* C15: a translation the presentation layer aborts while it is in flight  *)
(* (by a new request or by unmounting) reaches handleTranslate as a        *)
(* cancellation and is suppressed: handleTranslate never calls setError    *)
(* with its outcome.                                                       *)
(***************************************************************************)
C15_AbortSuppressed ==
  /\ \A c \in ui.abortedInFlight \cap ui.settled :
       ui.caught[c].name = "AbortError"
  /\ \A i \in DOMAIN ui.setErrorLog :
       ui.setErrorLog[i].by \notin ui.abortedInFlight

(***************************************************************************)
(* parseTranslationResponse on the characters of its argument.  The text   *)
(* is a sequence of one-character strings; trim, the two fence regular     *)
(* expressions and JSON.parse are computed on it.  The characters the      *)
(* model feeds are space and newline (white space both for \s and for      *)
(* JSON), the backtick, JSON punctuation, the backslash, digits and        *)
(* letters; the JSON grammar below covers objects, strings with the        *)
(* escapes \" \\ \/ \n \t \r \f, integers and the three literals, which    *)
(* is all that such characters can spell.                                  *)
(***************************************************************************)
\* the backtick, which a TLA+ string literal cannot hold
Backtick == "BACKTICK"
Fence == <<Backtick, Backtick, Backtick>>
JsonTag == <<"j", "s", "o", "n">>
Digits == {"0", "1", "2", "3", "4", "5", "6", "7", "8", "9"}

translationKey == <<"t", "r", "a", "n", "s", "l", "a", "t", "i", "o", "n">>
explanationKey == <<"e", "x", "p", "l", "a", "n", "a", "t", "i", "o", "n">>
transcriptionKey ==
  <<"t", "r", "a", "n", "s", "c", "r", "i", "p", "t", "i", "o", "n">>
detectedLanguageKey ==
  <<"d", "e", "t", "e", "c", "t", "e", "d", "L", "a", "n", "g", "u", "a",
    "g", "e">>

nullText == <<"n", "u", "l", "l">>
trueText == <<"t", "r", "u", "e">>
falseText == <<"f", "a", "l", "s", "e">>

Bool(s) == [t |-> "boolean", v |-> s]
\* an object or array met as a property value: truthy and not a string
Obj == [t |-> "object", v |-> <<>>]

\* String.prototype.startsWith
startsWith(s, p) == Len(s) >= Len(p) /\ SubSeq(s, 1, Len(p)) = p

\* s without its first n characters
drop(s, n) == SubSeq(s, n + 1, Len(s))

\* s from position i on, p being a prefix of it
startsWithAt(s, i, p) == i >= 1 /\ startsWith(drop(s, i - 1), p)

\* \s*$ matches at position i
onlyWhitespaceFrom(s, i) == \A k \in i..Len(s) : s[k] \in Whitespace

\* cleanContent.replace(/^```(?:json)?\s*\n?/, ''): both quantifiers are
\* greedy and nothing follows them, so the tag is taken when present and
\* \s* takes all the white space (\n? is left with nothing)
stripOpeningFence(s) ==
  IF ~startsWith(s, Fence)
    THEN s
    ELSE LET a == drop(s, 3)
             b == IF startsWith(a, JsonTag) THEN drop(a, 4) ELSE a
         IN trimStart(b)

\* a slip: the closing expression without the optional mark, /\n```\s*$/
closingFenceAtNewlineOnly(s, i) ==
  /\ s[i] = "\n"
  /\ startsWithAt(s, i + 1, Fence)
  /\ onlyWhitespaceFrom(s, i + 4)

\* /\n?```\s*$/ matches at position i
closingFenceAt(s, i) ==
  \/ /\ s[i] = "\n"
     /\ startsWithAt(s, i + 1, Fence)
     /\ onlyWhitespaceFrom(s, i + 4)
  \/ /\ startsWithAt(s, i, Fence)
     /\ onlyWhitespaceFrom(s, i + 3)

\* cleanContent.replace(/\n?```\s*$/, ''): the leftmost match is removed,
\* and a match runs to the end of the text
stripClosingFence(s) ==
  LET matches == {i \in 1..Len(s) : closingFenceAt(s, i)}
  IN IF matches = {}
       THEN s
       ELSE SubSeq(s, 1,
              (CHOOSE i \in matches : \A k \in matches : i <= k) - 1)

\* lines 290-296: the text handed to JSON.parse
cleanContent(content) ==
  LET trimmed == trim(content)
  IN IF startsWith(trimmed, Fence)
       THEN stripClosingFence(stripOpeningFence(trimmed))
       ELSE trimmed

(***************************************************************************)
(* JSON.parse.  A parse step returns [ok, next, val, obj]: whether a value *)
(* was read, the position after it, the value, and for an object the four  *)
(* properties the caller reads (the last of duplicate keys wins).          *)
(***************************************************************************)
ParseFail == [ok |-> FALSE, next |-> 0, val |-> Undef, obj |-> NoResponse]
Parsed(next, val, obj) == [ok |-> TRUE, next |-> next, val |-> val, obj |-> obj]

RECURSIVE skipWhitespace(_, _)
skipWhitespace(s, i) ==
  IF i <= Len(s) /\ s[i] \in Whitespace THEN skipWhitespace(s, i + 1) ELSE i

\* the character an escape sequence stands for
Escapes ==
  [c \in {"\"", "\\", "/", "n", "t", "r", "f"} |->
     CASE c = "n" -> "\n"
       [] c = "t" -> "\t"
       [] c = "r" -> "\r"
       [] c = "f" -> "\f"
       [] OTHER -> c]

\* a string from the character after its opening quote
RECURSIVE parseString(_, _, _)
parseString(s, i, acc) ==
  IF i > Len(s) THEN ParseFail
  ELSE IF s[i] = "\"" THEN Parsed(i + 1, Str(acc), NoResponse)
  ELSE IF s[i] = "\\"
    THEN IF i + 1 <= Len(s) /\ s[i + 1] \in DOMAIN Escapes
           THEN parseString(s, i + 2, Append(acc, Escapes[s[i + 1]]))
           ELSE ParseFail
  \* a control character may not appear unescaped
  ELSE IF s[i] = "\n" THEN ParseFail
  ELSE parseString(s, i + 1, Append(acc, s[i]))

RECURSIVE digitsEnd(_, _)
digitsEnd(s, i) ==
  IF i <= Len(s) /\ s[i] \in Digits THEN digitsEnd(s, i + 1) ELSE i

\* -?(0|[1-9][0-9]*)
parseNumber(s, i) ==
  LET j == IF s[i] = "-" THEN i + 1 ELSE i
  IN IF j > Len(s) \/ s[j] \notin Digits
       THEN ParseFail
       ELSE LET e == IF s[j] = "0" THEN j + 1 ELSE digitsEnd(s, j)
            IN Parsed(e, Num(SubSeq(s, i, e - 1)), NoResponse)

\* the property of the result that a member sets
setProperty(obj, key, value) ==
  IF key = translationKey THEN [obj EXCEPT !.translation = value]
  ELSE IF key = explanationKey THEN [obj EXCEPT !.explanation = value]
  ELSE IF key = transcriptionKey THEN [obj EXCEPT !.transcription = value]
  ELSE IF key = detectedLanguageKey
    THEN [obj EXCEPT !.detectedLanguage = value]
  ELSE obj

RECURSIVE parseValue(_, _)
RECURSIVE parseMembers(_, _, _)

\* the members of an object from the first key (at i, white space skipped)
parseMembers(s, i, obj) ==
  IF i > Len(s) \/ s[i] # "\"" THEN ParseFail
  ELSE
    LET key == parseString(s, i + 1, <<>>)
    IN IF ~key.ok THEN ParseFail
       ELSE
         LET colon == skipWhitespace(s, key.next)
         IN IF colon > Len(s) \/ s[colon] # ":" THEN ParseFail
            ELSE
              LET value == parseValue(s, colon + 1)
              IN IF ~value.ok THEN ParseFail
                 ELSE
                   LET obj2 == setProperty(obj, key.val.v, value.val)
                       sep == skipWhitespace(s, value.next)
                   IN IF sep > Len(s) THEN ParseFail
                      ELSE IF s[sep] = "}" THEN Parsed(sep + 1, Obj, obj2)
                      ELSE IF s[sep] = ","
                        THEN parseMembers(s, skipWhitespace(s, sep + 1), obj2)
                      ELSE ParseFail

parseValue(s, i0) ==
  LET i == skipWhitespace(s, i0)
  IN IF i > Len(s) THEN ParseFail
     ELSE IF s[i] = "{"
       THEN LET j == skipWhitespace(s, i + 1)
            IN IF j <= Len(s) /\ s[j] = "}"
                 THEN Parsed(j + 1, Obj, NoResponse)
                 ELSE parseMembers(s, j, NoResponse)
     ELSE IF s[i] = "\"" THEN parseString(s, i + 1, <<>>)
     ELSE IF s[i] \in Digits \cup {"-"} THEN parseNumber(s, i)
     ELSE IF startsWithAt(s, i, nullText)
       THEN Parsed(i + 4, Null, NoResponse)
     ELSE IF startsWithAt(s, i, trueText)
       THEN Parsed(i + 4, Bool(trueText), NoResponse)
     ELSE IF startsWithAt(s, i, falseText)
       THEN Parsed(i + 5, Bool(falseText), NoResponse)
     ELSE ParseFail

\* JSON.parse(text): one value, with nothing but white space around it
JSONparse(text) ==
  LET r == parseValue(text, 1)
  IN IF r.ok /\ skipWhitespace(text, r.next) > Len(text) THEN r ELSE ParseFail

\* the SyntaxError JSON.parse throws
SyntaxErrorValue ==
  [type |-> "undefined", message |-> "Unexpected token", statusCode |-> 0,
   name |-> "SyntaxError", id |-> 0]

\* a slip: parsed.translation is returned without the || ''
parseTranslationResponseTryNoDefault(content) ==
  LET parsed == JSONparse(cleanContent(content))
  IN IF ~parsed.ok THEN Threw(SyntaxErrorValue)
     ELSE IF parsed.val = Null THEN Threw(TypeErrorValue(0))
     ELSE Returned(parsed.obj)

\* the try block, lines 288-310.  Reading a property of null throws a
\* TypeError; a string, number or boolean has none of the four properties.
parseTranslationResponseTry(content) ==
  LET parsed == JSONparse(cleanContent(content))
  IN IF ~parsed.ok THEN Threw(SyntaxErrorValue)
     ELSE IF parsed.val = Null THEN Threw(TypeErrorValue(0))
     ELSE Returned(Response(
            IF Truthy(parsed.obj.translation)
              THEN parsed.obj.translation ELSE Str(<<>>),
            parsed.obj.explanation,
            parsed.obj.transcription,
            parsed.obj.detectedLanguage))

\* a slip: the catch block returns the trimmed content
parseTranslationResponseCatchTrimmed(content) ==
  Returned(Response(Str(trim(content)), Undef, Undef, Undef))

\* the catch block, lines 311-322, for a string content
parseTranslationResponseCatch(content) ==
  Returned(Response(Str(content), Undef, Undef, Undef))

\* parseTranslationResponse(content) for a string content
parseTranslationResponseString(content) ==
  LET r == parseTranslationResponseTry(content)
  IN IF r.kind = "throw" THEN parseTranslationResponseCatch(content) ELSE r

(***************************************************************************)
(* SpecParse: parseTranslationResponse applied to every sample text        *)
(***************************************************************************)
\* the longest text made of arbitrary characters
MaxInput == 4

ParseChars == {" ", "\n", Backtick, "{", "}", "\"", "\\", "5", "h"}

ShortTexts == UNION {[1..n -> ParseChars] : n \in 0..MaxInput}

RECURSIVE concat(_)
concat(parts) ==
  IF parts = <<>> THEN <<>> ELSE Head(parts) \o concat(Tail(parts))

RECURSIVE escapeText(_)
escapeText(s) ==
  IF s = <<>> THEN <<>>
  ELSE (CASE Head(s) = "\n" -> <<"\\", "n">>
          [] Head(s) = "\"" -> <<"\\", "\"">>
          [] Head(s) = "\\" -> <<"\\", "\\">>
          [] OTHER -> <<Head(s)>>) \o escapeText(Tail(s))

\* JSON.stringify of a property value
valueText(x) ==
  CASE x.t = "string" -> <<"\"">> \o escapeText(x.v) \o <<"\"">>
    [] x.t = "number" -> x.v
    [] x.t = "boolean" -> x.v
    [] x.t = "object" -> <<"{", "}">>
    [] OTHER -> nullText

RECURSIVE membersText(_)
membersText(ms) ==
  IF ms = <<>> THEN <<>>
  ELSE <<"\"">> \o Head(ms).key \o <<"\"", ":">> \o valueText(Head(ms).x)
         \o (IF Len(ms) > 1 THEN <<",">> ELSE <<>>) \o membersText(Tail(ms))

IsDefined(m) == m.x # Undef

\* JSON.stringify(obj): a property that is undefined is left out
JSONstringify(obj) ==
  <<"{">>
    \o membersText(SelectSeq(
         <<[key |-> translationKey, x |-> obj.translation],
           [key |-> explanationKey, x |-> obj.explanation],
           [key |-> transcriptionKey, x |-> obj.transcription],
           [key |-> detectedLanguageKey, x |-> obj.detectedLanguage]>>,
         IsDefined))
    \o <<"}">>

\* JSON object texts: the sample objects and some written by hand
ObjectTexts ==
  {JSONstringify(o) : o \in SampleObjects}
    \cup {JSONstringify(Response(x, Undef, Undef, Undef)) :
            x \in {Str(Fence), Str(<<"\n">> \o Fence), Obj, Bool(trueText),
                   Bool(falseText), Num(<<"-", "0">>)}}
    \cup {<<"{", " ", "}">>,
          \* { "translation" : "h" , "translation" : "i" }
          concat(<<
            <<"{", " ", "\"">>, translationKey, <<"\"", " ", ":", " ">>,
            <<"\"", "h", "\"", " ", ",", "\n", "\"">>, translationKey,
            <<"\"", ":", "\"", "i", "\"", " ", "}">> >>),
          \* {"other":"h"}
          <<"{", "\"", "o", "t", "h", "e", "r", "\"", ":", "\"", "h", "\"",
            "}">>}

\* texts that are JSON but no object, and texts that are not JSON
OtherTexts ==
  {nullText, trueText, falseText, <<"\"", "h", "\"">>, <<"-", "5">>,
   <<"0", "5">>, <<"h", "i">>, <<"{", "\"", "h", "\"", "}">>,
   <<"{", "\"", "h", "\"", ":", "5", ",", "}">>,
   <<"\"", "\\", "h", "\"">>}

FencePre == {<<>>, <<" ">>, <<"\n">>}
FenceTags == {<<>>, JsonTag}
FenceAfterOpen == {<<>>, <<"\n">>, <<" ", "\n", " ">>}
FenceBeforeClose == {<<>>, <<"\n">>, <<" ", "\n", " ">>}
FencePost == {<<>>, <<" ">>, <<"\n">>}

\* a text inside a triple-backtick fence
wrapInFence(pre, tag, afterOpen, body, beforeClose, post) ==
  concat(<<pre, Fence, tag, afterOpen, body, beforeClose, Fence, post>>)

\* an argument of parseTranslationResponse; body is the text inside the
\* fence when the argument was made by wrapping one
PlainInput(text) == [text |-> text, wrapped |-> FALSE, body |-> <<>>]

FencedInputs ==
  {[text |-> wrapInFence(pre, tag, ao, body, bc, post),
    wrapped |-> TRUE, body |-> body] :
     pre \in FencePre, tag \in FenceTags, ao \in FenceAfterOpen,
     body \in ObjectTexts \cup OtherTexts, bc \in FenceBeforeClose,
     post \in FencePost}

ParseInputs ==
  {PlainInput(x) : x \in ShortTexts \cup ObjectTexts \cup OtherTexts}
    \cup FencedInputs

InitParse ==
  /\ call = [c \in Calls |-> InitCall]
  /\ ui = UiOff
  /\ \E input \in ParseInputs :
       pure = [fn |-> "parseTranslationResponse", input |-> input,
               done |-> FALSE, out |-> Returned(NoResponse)]

\* parseTranslationResponse(content) is called
ParseCall ==
  /\ pure.fn = "parseTranslationResponse"
  /\ ~pure.done
  /\ pure' = [pure EXCEPT
       !.done = TRUE,
       !.out = parseTranslationResponseString(pure.input.text)]
  /\ UNCHANGED <<call, ui>>

NextParse == ParseCall

SpecParse == InitParse /\ [][NextParse]_vars

ParseDone == pure.fn = "parseTranslationResponse" /\ pure.done

\* C16: parseTranslationResponse never throws: for every string it returns
\* a response whose translation is set (neither undefined nor null)
C16_ParseNeverThrows ==
  ParseDone =>
    /\ pure.out.kind = "return"
    /\ pure.out.value.translation.t \notin {"undefined", "null"}

\* the text null: reading parsed.translation throws inside the try block
C16_Witness ==
  /\ ParseDone
  /\ JSONparse(cleanContent(pure.input.text)).ok
  /\ JSONparse(cleanContent(pure.input.text)).val = Null
  /\ pure.out.kind = "return"

\* C17: when the text, trimmed and with its fence removed, is not JSON, the
\* result is the argument itself as translation, with no explanation and
\* no transcription
C17_UnparsedPassThrough ==
  (ParseDone /\ ~JSONparse(cleanContent(pure.input.text)).ok) =>
    /\ pure.out.kind = "return"
    /\ pure.out.value.translation = Str(pure.input.text)
    /\ pure.out.value.explanation = Undef
    /\ pure.out.value.transcription = Undef

\* a fenced text that is not JSON, with white space around the fence
C17_Witness ==
  /\ ParseDone
  /\ pure.input.wrapped
  /\ ~JSONparse(cleanContent(pure.input.text)).ok
  /\ trim(pure.input.text) # pure.input.text
  /\ pure.out.value.translation = Str(pure.input.text)

\* C18: a JSON object text inside a fence (tagged json or not, with or
\* without newlines inside the fence and white space around it) gives the
\* result the text gives alone
C18_FenceTransparent ==
  (/\ ParseDone
   /\ pure.input.wrapped
   /\ JSONparse(pure.input.body).ok
   /\ JSONparse(pure.input.body).val = Obj) =>
    pure.out = parseTranslationResponseString(pure.input.body)

\* an object with a translation, in an untagged fence without newlines
C18_Witness ==
  /\ ParseDone
  /\ pure.input.wrapped
  /\ pure.input.text = Fence \o pure.input.body \o Fence
  /\ JSONparse(pure.input.body).val = Obj
  /\ pure.out = Returned(Response(Hi, Undef, Undef, Undef))

(***************************************************************************)
(* buildUserPrompt.  A text is a sequence of tokens: a token is a phrase   *)
(* of the template, a language code, or a word of the user's text.  The    *)
(* template is cut so that the mark Context: and the blank line before it  *)
(* are tokens of their own, which the user's text may hold too.            *)
(***************************************************************************)
BlankLine == "\n\n"
ContextMark == "Context:"
RomanizationRequest ==
  "Please include a ROMANIZATION of the TRANSLATED text (the translated "
LatinOnly == ". Use ONLY Latin letters (a-z), NO IPA symbols."
Reminder == "Remember: Write the explanation in English."

\* the table of getWritingSystem
writingSystems ==
  [l \in {"en", "es", "fr", "de", "pt", "ja", "zh", "ko", "ar", "ru", "auto"}
     |-> CASE l \in {"en", "es", "fr", "de", "pt"} -> "latin"
           [] l = "ja" -> "japanese"
           [] l = "zh" -> "chinese"
           [] l = "ko" -> "korean"
           [] l = "ar" -> "arabic"
           [] l = "ru" -> "cyrillic"
           [] OTHER -> "unknown"]

\* writingSystems is an object literal, so a lookup that finds no own
\* property goes on to Object.prototype: these keys yield a function or an
\* object (truthy, and no writing system) where others yield undefined
inheritedProperties ==
  [k \in {"constructor", "toString", "__proto__"} |->
     CASE k = "constructor" -> "function Object"
       [] k = "toString" -> "function toString"
       [] OTHER -> "Object.prototype"]

\* a slip: ru is missing from the table
getWritingSystemNoRussian(languageCode) ==
  IF languageCode \in DOMAIN writingSystems \ {"ru"}
    THEN writingSystems[languageCode]
  ELSE IF languageCode \in DOMAIN inheritedProperties
    THEN inheritedProperties[languageCode]
  ELSE "unknown"

\* writingSystems[languageCode] || 'unknown'
getWritingSystem(languageCode) ==
  IF languageCode \in DOMAIN writingSystems
    THEN writingSystems[languageCode]
  ELSE IF languageCode \in DOMAIN inheritedProperties
    THEN inheritedProperties[languageCode]
  ELSE "unknown"

needsTranscription(fromLanguage, toLanguage) ==
  IF fromLanguage = "auto" THEN FALSE
  ELSE LET fromSystem == getWritingSystem(fromLanguage)
           toSystem == getWritingSystem(toLanguage)
       IN IF fromSystem = "unknown" \/ toSystem = "unknown"
            THEN FALSE
            ELSE fromSystem # toSystem

\* lines 262-272: the format named after the source language
transcriptionFormat(fromLanguage) ==
  IF fromLanguage = "ja" THEN <<" using romaji">>
  ELSE IF fromLanguage \in {"zh", "zh-CN", "zh-TW"}
    THEN <<" using pinyin with tone marks">>
  ELSE IF fromLanguage = "ko" THEN <<" using revised romanization">>
  ELSE IF fromLanguage = "ar" THEN <<" using simple Latin letters (marhaban)">>
  ELSE IF fromLanguage = "ru" THEN <<" using simple Latin letters (privet)">>
  ELSE <<>>

Request(sourceText, fromLanguage, toLanguage, context) ==
  [sourceText |-> sourceText, fromLanguage |-> fromLanguage,
   toLanguage |-> toLanguage, context |-> context]

\* a slip: the context line is added whenever context is not undefined
buildUserPromptContextDefined(request) ==
  LET base ==
        <<"Translate the following text from ", request.fromLanguage,
          " to ", request.toLanguage, ":", BlankLine>>
          \o request.sourceText
      withContext ==
        IF request.context # Undef
          THEN base \o <<BlankLine, ContextMark, " ">> \o request.context.v
          ELSE base
      withTranscription ==
        IF needsTranscription(request.fromLanguage, request.toLanguage)
          THEN withContext
                 \o <<BlankLine, RomanizationRequest, request.toLanguage,
                      " text)">>
                 \o transcriptionFormat(request.fromLanguage)
                 \o <<LatinOnly>>
          ELSE withContext
  IN withTranscription \o <<BlankLine, Reminder>>

buildUserPrompt(request) ==
  LET base ==
        <<"Translate the following text from ", request.fromLanguage,
          " to ", request.toLanguage, ":", BlankLine>>
          \o request.sourceText
      withContext ==
        IF Truthy(request.context)
          THEN base \o <<BlankLine, ContextMark, " ">> \o request.context.v
          ELSE base
      withTranscription ==
        IF needsTranscription(request.fromLanguage, request.toLanguage)
          THEN withContext
                 \o <<BlankLine, RomanizationRequest, request.toLanguage,
                      " text)">>
                 \o transcriptionFormat(request.fromLanguage)
                 \o <<LatinOnly>>
          ELSE withContext
  IN withTranscription \o <<BlankLine, Reminder>>

(***************************************************************************)
(* SpecPrompt: buildUserPrompt called twice with every sample request      *)
(***************************************************************************)
\* the longest source text, in tokens
MaxText == 2

Words == {"hello", BlankLine, ContextMark}

SourceTexts == UNION {[1..n -> Words] : n \in 0..MaxText}

Languages ==
  {"auto", "en", "es", "fr", "ja", "zh", "zh-CN", "zh-TW", "ko", "ar", "ru",
   "xx"}

Contexts ==
  {Undef, Str(<<>>), Str(<<" ">>), Str(<<"formal">>),
   Str(<<ContextMark, "formal">>)}

Requests ==
  {Request(s, f, t, c) :
     s \in SourceTexts, f \in Languages, t \in Languages, c \in Contexts}

InitPrompt ==
  /\ call = [c \in Calls |-> InitCall]
  /\ ui = UiOff
  /\ \E request \in Requests :
       pure = [fn |-> "buildUserPrompt", request |-> request, out |-> <<>>]

\* buildUserPrompt(request) is called, at most twice
BuildCall ==
  /\ pure.fn = "buildUserPrompt"
  /\ Len(pure.out) < 2
  /\ pure' = [pure EXCEPT !.out = Append(@, buildUserPrompt(pure.request))]
  /\ UNCHANGED <<call, ui>>

NextPrompt == BuildCall

SpecPrompt == InitPrompt /\ [][NextPrompt]_vars

\* String.prototype.includes on token sequences
Contains(text, piece) ==
  \E i \in 1..(Len(text) - Len(piece) + 1) :
    SubSeq(text, i, i + Len(piece) - 1) = piece

PromptBuilt == pure.fn = "buildUserPrompt" /\ Len(pure.out) >= 1
PromptBuiltTwice == pure.fn = "buildUserPrompt" /\ Len(pure.out) = 2

HasContext(request) ==
  request.context.t = "string" /\ request.context.v # <<>>

\* a line that starts with Context:
HasContextLine(prompt) == Contains(prompt, <<BlankLine, ContextMark>>)

PromptBasics ==
  /\ PromptBuiltTwice => pure.out[1] = pure.out[2]
  /\ PromptBuilt =>
       /\ Contains(pure.out[1], pure.request.sourceText)
       /\ Contains(pure.out[1], <<pure.request.fromLanguage>>)
       /\ Contains(pure.out[1], <<pure.request.toLanguage>>)

LatinLanguages == {"en", "es", "fr"}
OtherScripts == {"ja", "zh", "ko", "ar", "ru"}
SameScript(f, t) ==
  \/ f \in LatinLanguages /\ t \in LatinLanguages
  \/ f \in OtherScripts /\ f = t
CrossScript(f, t) ==
  /\ f \in LatinLanguages \cup OtherScripts
  /\ t \in LatinLanguages \cup OtherScripts
  /\ ~SameScript(f, t)

\* the clause of lines 259-274 is in the prompt
RequestsTranscription(prompt) ==
  \E i \in DOMAIN prompt : prompt[i] = RomanizationRequest

LanguageCodes ==
  Languages \cup {"de", "pt", ""} \cup DOMAIN inheritedProperties

InitScript ==
  /\ call = [c \in Calls |-> InitCall]
  /\ ui = UiOff
  /\ \E f \in LanguageCodes, t \in LanguageCodes :
       pure = [fn |-> "needsTranscription", fromLanguage |-> f,
               toLanguage |-> t, done |-> FALSE, out |-> FALSE]

\* needsTranscription(fromLanguage, toLanguage) is called
NeedsTranscriptionCall ==
  /\ pure.fn = "needsTranscription"
  /\ ~pure.done
  /\ pure' = [pure EXCEPT
       !.done = TRUE,
       !.out = needsTranscription(pure.fromLanguage, pure.toLanguage)]
  /\ UNCHANGED <<call, ui>>

NextScript == NeedsTranscriptionCall

SpecScript == InitScript /\ [][NextScript]_vars

\* the recognised languages and their scripts, as the claim reads them
RecognisedLanguages == {"en", "es", "fr", "de", "pt"} \cup OtherScripts
ScriptOf(l) == IF l \in OtherScripts THEN l ELSE "latin"

\* C21: needsTranscription is false when from is auto or a code is not a
\* recognised language, and true exactly when both codes are recognised
\* and have different writing systems
C21_NeedsTranscription ==
  (pure.fn = "needsTranscription" /\ pure.done) =>
    LET f == pure.fromLanguage
        t == pure.toLanguage
    IN /\ (f = "auto" \/ f \notin RecognisedLanguages
             \/ t \notin RecognisedLanguages) => ~pure.out
       /\ pure.out <=> (/\ f \in RecognisedLanguages
                        /\ t \in RecognisedLanguages
                        /\ ScriptOf(f) # ScriptOf(t))

(***************************************************************************)
(* ErrorBanner.  The error prop is null, a string or an OpenRouterError.   *)
(***************************************************************************)
NoErrorProp == [t |-> "null", s |-> "", e |-> NullError]
StringError(s) == [t |-> "string", s |-> s, e |-> NullError]
ObjectError(e) == [t |-> "object", s |-> "", e |-> e]

AuthSentence ==
  "Authentication failed. Please check your API key and try again."
RateLimitSentence ==
  "Rate limit exceeded. Please wait a moment and try again."
NetworkSentence ==
  "Network error. Please check your internet connection and try again."
InvalidResponseSentence ==
  "Received an unexpected response from the server. Please try again."
FallbackSentence == "An unexpected error occurred. Please try again."

\* a slip: the network case is missing, so it falls to the default
getMessageNetworkDefault(error) ==
  IF error.t = "string" THEN error.s
  ELSE CASE error.e.type = "auth" -> AuthSentence
         [] error.e.type = "rate_limit" -> RateLimitSentence
         [] error.e.type = "invalid_response" -> InvalidResponseSentence
         [] OTHER ->
              IF error.e.message # "" THEN error.e.message
                                      ELSE FallbackSentence

\* getMessage of ErrorBanner
getMessage(error) ==
  IF error.t = "string" THEN error.s
  ELSE CASE error.e.type = "auth" -> AuthSentence
         [] error.e.type = "rate_limit" -> RateLimitSentence
         [] error.e.type = "network" -> NetworkSentence
         [] error.e.type = "invalid_response" -> InvalidResponseSentence
         [] OTHER ->
              IF error.e.message # "" THEN error.e.message
                                      ELSE FallbackSentence

\* what the component renders: nothing for a falsy error
ErrorBanner(error) ==
  IF error.t = "null" \/ (error.t = "string" /\ error.s = "")
    THEN [rendered |-> FALSE, text |-> ""]
    ELSE [rendered |-> TRUE, text |-> getMessage(error)]

(***************************************************************************)
(* SpecBanner: ErrorBanner rendered with every sample error                *)
(***************************************************************************)
SampleMessages ==
  {"", "Invalid API key", "Rate limit exceeded. Please try again later.",
   "Network error occurred during translation",
   "Translation request failed with status 500",
   "Invalid response format from API", "Invalid response schema"}

SampleErrors ==
  {ObjectError(createError(k, m, st, 0)) :
     k \in ErrorKinds, m \in SampleMessages, st \in Statuses \cup {0}}
    \* errors that are no OpenRouterError: they have no type
    \cup {ObjectError(InvalidSchemaError(0)), ObjectError(AbortFailure(0))}
    \cup {StringError(m) : m \in SampleMessages \cup {ApiKeyMissing.message}}
    \cup {NoErrorProp}

InitBanner ==
  /\ call = [c \in Calls |-> InitCall]
  /\ ui = UiOff
  /\ \E error \in SampleErrors :
       pure = [fn |-> "ErrorBanner", error |-> error, done |-> FALSE,
               out |-> [rendered |-> FALSE, text |-> ""]]

\* React renders the component
RenderBanner ==
  /\ pure.fn = "ErrorBanner"
  /\ ~pure.done
  /\ pure' = [pure EXCEPT !.done = TRUE, !.out = ErrorBanner(pure.error)]
  /\ UNCHANGED <<call, ui>>

NextBanner == RenderBanner

SpecBanner == InitBanner /\ [][NextBanner]_vars

\* the sentence the claim ties to each kind
SentenceOfKind(kind) ==
  CASE kind = "auth" -> AuthSentence
    [] kind = "rate_limit" -> RateLimitSentence
    [] kind = "network" -> NetworkSentence
    [] kind = "invalid_response" -> InvalidResponseSentence

validateApiKeyCatch == [kind |-> "return", value |-> FALSE]

\* a slip: validateApiKey without its try/catch
validateApiKeyRejectedUncaught == [kind |-> "throw", value |-> FALSE]

\* fetch() rejected
validateApiKeyRejected == validateApiKeyCatch

\* fetch() resolved: return response.ok
validateApiKeyResponded(status) == [kind |-> "return", value |-> Ok(status)]

\* an entry of data.data, and the null entry
Entry(id, name, description, context_length) ==
  [t |-> "object", id |-> id, name |-> name, description |-> description,
   context_length |-> context_length]
NullEntry == [t |-> "null", id |-> Undef, name |-> Undef,
              description |-> Undef, context_length |-> Undef]

\* an element of the array fetchModels returns
Model(id, name, description, contextLength) ==
  [id |-> id, name |-> name, description |-> description,
   contextLength |-> contextLength]

\* the decoded body: null, or an object whose property data is undefined,
\* null, a string, an object or an array of entries
NullBody == [t |-> "null", data |-> [t |-> "undefined", entries |-> <<>>]]
Body(dataType, entries) ==
  [t |-> "object", data |-> [t |-> dataType, entries |-> entries]]

ModelsReturned(models) ==
  [kind |-> "return", models |-> models, error |-> NullError]
ModelsThrew(error) == [kind |-> "throw", models |-> <<>>, error |-> error]

\* the catch block of fetchModels
fetchModelsCatch(error) ==
  IF error.type # "undefined"
    THEN error
    ELSE createError("network", "Network error occurred", 0, 0)

\* fetch() or response.json() rejected with `error`
fetchModelsRejected(error) == ModelsThrew(fetchModelsCatch(error))

\* fetch() resolved with a non-success status
fetchModelsNotOk(status) ==
  ModelsThrew(fetchModelsCatch(
    IF status = 401 \/ status = 403
      THEN createError("auth", "Invalid API key", status, 0)
    ELSE IF status = 429
      THEN createError("rate_limit", "Rate limit exceeded", status, 0)
    ELSE createError("unknown", "Request failed with status", status, 0)))

\* model => ({id, name: model.name || model.id, description, contextLength})
mapEntry(e) ==
  Model(e.id, IF Truthy(e.name) THEN e.name ELSE e.id, e.description,
        e.context_length)

\* response.json() resolved with `body`.  Reading a property of null
\* (data.data of a null body, model.id of a null entry) throws a TypeError.
fetchModelsData(body) ==
  IF body.t = "null"
    THEN ModelsThrew(fetchModelsCatch(TypeErrorValue(0)))
  ELSE IF body.data.t \in {"undefined", "null"} \/ body.data.t # "array"
    THEN ModelsThrew(fetchModelsCatch(
           createError("invalid_response", "Invalid response format from API",
                       0, 0)))
  ELSE IF \E i \in DOMAIN body.data.entries : body.data.entries[i].t = "null"
    THEN ModelsThrew(fetchModelsCatch(TypeErrorValue(0)))
  ELSE ModelsReturned(
         [i \in DOMAIN body.data.entries |-> mapEntry(body.data.entries[i])])

(***************************************************************************)
(* SpecCatalog: one validateApiKey call and one fetchModels call.  gw is   *)
(* what the gateway did: "rejected", "status" (with status), "undecodable" *)
(* (response.json() rejected) or "body" (with body).                       *)
(***************************************************************************)
\* the longest data array
MaxEntries == 2

CatalogStatuses == Statuses \cup {204}

SampleEntries ==
  {Entry(id, name, d[1], d[2]) :
     id \in {Str(<<"a">>), Str(<<"b">>)},
     name \in {Undef, Str(<<>>), Str(<<"N">>)},
     d \in {<<Undef, Undef>>, <<Str(<<"d">>), Num(<<"5">>)>>}}
    \cup {NullEntry}

SampleBodies ==
  {NullBody}
    \cup {Body(t, <<>>) : t \in {"undefined", "null", "string", "object"}}
    \cup UNION {{Body("array", es) : es \in [1..n -> SampleEntries]} :
                  n \in 0..MaxEntries}

NoGateway == [o |-> "none", status |-> 0, body |-> NullBody]

InitValidate ==
  [pc |-> "idle", fetches |-> 0, gw |-> NoGateway, result |-> FALSE]

InitFetchModels ==
  [pc |-> "idle", fetches |-> 0, gw |-> NoGateway,
   out |-> ModelsReturned(<<>>)]

InitCatalog ==
  /\ call = [c \in Calls |-> InitCall]
  /\ ui = UiOff
  /\ pure = [fn |-> "catalog", v |-> InitValidate, m |-> InitFetchModels]

\* validateApiKey(key) runs to its await fetch
ValidateInvoke ==
  /\ pure.fn = "catalog"
  /\ pure.v.pc = "idle"
  /\ pure' = [pure EXCEPT !.v.pc = "await_fetch", !.v.fetches = @ + 1]
  /\ UNCHANGED <<call, ui>>

validateSettle(v, gw, r) ==
  [v EXCEPT !.pc = IF r.kind = "return" THEN "returned" ELSE "thrown",
            !.gw = gw, !.result = r.value]

ValidateResponds(status) ==
  /\ pure.fn = "catalog"
  /\ pure.v.pc = "await_fetch"
  /\ pure' = [pure EXCEPT !.v =
       validateSettle(@, [NoGateway EXCEPT !.o = "status", !.status = status],
                      validateApiKeyResponded(status))]
  /\ UNCHANGED <<call, ui>>

ValidateRejects ==
  /\ pure.fn = "catalog"
  /\ pure.v.pc = "await_fetch"
  /\ pure' = [pure EXCEPT !.v =
       validateSettle(@, [NoGateway EXCEPT !.o = "rejected"],
                      validateApiKeyRejected)]
  /\ UNCHANGED <<call, ui>>

\* fetchModels(key) runs to its await fetch
FetchModelsInvoke ==
  /\ pure.fn = "catalog"
  /\ pure.m.pc = "idle"
  /\ pure' = [pure EXCEPT !.m.pc = "await_fetch", !.m.fetches = @ + 1]
  /\ UNCHANGED <<call, ui>>

fetchModelsSettle(m, gw, r) ==
  [m EXCEPT !.pc = IF r.kind = "return" THEN "returned" ELSE "thrown",
            !.gw = gw, !.out = r]

FetchModelsRejects ==
  /\ pure.fn = "catalog"
  /\ pure.m.pc = "await_fetch"
  /\ pure' = [pure EXCEPT !.m =
       fetchModelsSettle(@, [NoGateway EXCEPT !.o = "rejected"],
                         fetchModelsRejected(TransportFailure(0)))]
  /\ UNCHANGED <<call, ui>>

FetchModelsResponds(status) ==
  /\ pure.fn = "catalog"
  /\ pure.m.pc = "await_fetch"
  /\ pure' = [pure EXCEPT !.m =
       IF Ok(status)
         THEN [@ EXCEPT !.pc = "await_json", !.gw.status = status]
         ELSE fetchModelsSettle(@,
                [NoGateway EXCEPT !.o = "status", !.status = status],
                fetchModelsNotOk(status))]
  /\ UNCHANGED <<call, ui>>

FetchModelsJsonRejects ==
  /\ pure.fn = "catalog"
  /\ pure.m.pc = "await_json"
  /\ pure' = [pure EXCEPT !.m =
       fetchModelsSettle(@, [@.gw EXCEPT !.o = "undecodable"],
                         fetchModelsRejected(TransportFailure(0)))]
  /\ UNCHANGED <<call, ui>>

FetchModelsJsonResolves(body) ==
  /\ pure.fn = "catalog"
  /\ pure.m.pc = "await_json"
  /\ pure' = [pure EXCEPT !.m =
       fetchModelsSettle(@, [@.gw EXCEPT !.o = "body", !.body = body],
                         fetchModelsData(body))]
  /\ UNCHANGED <<call, ui>>

NextCatalog ==
  \/ ValidateInvoke
  \/ \E status \in CatalogStatuses : ValidateResponds(status)
  \/ ValidateRejects
  \/ FetchModelsInvoke
  \/ FetchModelsRejects
  \/ \E status \in CatalogStatuses : FetchModelsResponds(status)
  \/ FetchModelsJsonRejects
  \/ \E body \in SampleBodies : FetchModelsJsonResolves(body)

SpecCatalog == InitCatalog /\ [][NextCatalog]_vars

CatalogOn == pure.fn = "catalog"

\* C23: validateApiKey never throws; it makes one GET and returns true
\* exactly when the call completed with a success status
C23_ValidateNeverThrows ==
  CatalogOn =>
    /\ pure.v.pc # "thrown"
    /\ pure.v.fetches <= 1
    /\ pure.v.pc = "returned" =>
         /\ pure.v.fetches = 1
         /\ pure.v.result <=>
              (/\ pure.v.gw.o = "status"
               /\ pure.v.gw.status >= 200
               /\ pure.v.gw.status <= 299)

\* the transport failed and validateApiKey returned false
C23_Witness ==
  /\ CatalogOn
  /\ pure.v.pc = "returned"
  /\ pure.v.gw.o = "rejected"
  /\ ~pure.v.result

FetchModelsSettled == CatalogOn /\ pure.m.pc \in {"returned", "thrown"}

ThrewModelsError(type, statusCode) ==
  /\ pure.m.pc = "thrown"
  /\ pure.m.out.kind = "throw"
  /\ pure.m.out.error.type = type
  /\ pure.m.out.error.statusCode = statusCode

HasDataArray(body) == body.t = "object" /\ body.data.t = "array"

\* C24: fetchModels makes exactly one HTTP call; it throws auth for 401
\* and 403, rate_limit for 429, unknown for any other non-success status
\* (with the status code), invalid_response when a success body has no data
\* array, network when fetch or response.json() fails; otherwise it returns
\* one model per entry, in order, the name defaulting to the entry's id
C24_FetchModelsOutcome ==
  /\ CatalogOn => pure.m.fetches <= 1
  /\ FetchModelsSettled =>
       LET gw == pure.m.gw
           entries == gw.body.data.entries
       IN /\ pure.m.fetches = 1
          /\ (gw.o = "status" /\ gw.status \in {401, 403})
               => ThrewModelsError("auth", gw.status)
          /\ (gw.o = "status" /\ gw.status = 429)
               => ThrewModelsError("rate_limit", gw.status)
          /\ (gw.o = "status" /\ gw.status \notin {401, 403, 429})
               => ThrewModelsError("unknown", gw.status)
          /\ (gw.o = "body" /\ ~HasDataArray(gw.body))
               => ThrewModelsError("invalid_response", 0)
          /\ gw.o \in {"rejected", "undecodable"}
               => ThrewModelsError("network", 0)
          /\ (gw.o = "body" /\ HasDataArray(gw.body))
               => /\ pure.m.pc = "returned"
                  /\ Len(pure.m.out.models) = Len(entries)
                  /\ \A i \in DOMAIN entries :
                       /\ pure.m.out.models[i].id = entries[i].id
                       /\ pure.m.out.models[i].name =
                            (IF entries[i].name \in {Undef, Str(<<>>)}
                               THEN entries[i].id ELSE entries[i].name)

\* attempt n got content that is JSON with a non-blank string translation
\* and null for explanation, transcription or detectedLanguage
NullOptionalContent(s, n) ==
  LET gw == s.log[n].gw IN
  /\ gw.o = "data"
  /\ gw.data.env = "message"
  /\ gw.data.content.kind = "json"
  /\ gw.data.content.obj.translation.t = "string"
  /\ trim(gw.data.content.obj.translation.v) # <<>>
  /\ \E f \in {"explanation", "transcription", "detectedLanguage"} :
       gw.data.content.obj[f] = Null

\* C25: a null explanation, transcription or detectedLanguage is passed
\* through by parseTranslationResponse and rejected by the shape check, so
\* the attempt is retried; a gateway that always answers so makes translate
\* throw after exactly 3 attempts
C25_NullOptionalRetried ==
  \A c \in Calls :
    LET s == call[c] IN
    /\ \A n \in DOMAIN s.log :
         NullOptionalContent(s, n)
           => /\ s.log[n].res.kind = "return"
              /\ \A f \in {"explanation", "transcription", "detectedLanguage"} :
                   s.log[n].res.value[f] = s.log[n].gw.data.content.obj[f]
              /\ ~(s.pc = "returned" /\ Len(s.log) = n)
              /\ n < 3 => NumFetch(s.trace) >= n + 1
              /\ n = 3 => s.pc = "thrown"
    /\ (Len(s.log) >= 1 /\ \A n \in DOMAIN s.log : NullOptionalContent(s, n))
         => /\ NumFetch(s.trace) <= 3
            /\ s.pc \in {"await_fetch", "await_json", "thrown"}
            /\ s.pc = "thrown" <=> Len(s.log) = 3

C25_Witness ==
  \E c \in Calls :
    /\ call[c].pc = "thrown"
    /\ Len(call[c].log) = 3
    /\ NumFetch(call[c].trace) = 3
    /\ \A n \in 1..3 : NullOptionalContent(call[c], n)
    /\ call[c].log[3].res.value.transcription = Null

\* the error translate records for attempt n: what translateAttempt threw,
\* or the Error made for a response that failed the shape check
RecordedError(s, n) ==
  IF s.log[n].res.kind = "throw"
    THEN s.log[n].res.error
    ELSE InvalidSchemaError(n)

\* C26: when all 3 attempts fail, the error thrown is the one recorded for
\* the third attempt, never one recorded for an earlier attempt
C26_LastErrorThrown ==
  \A c \in Calls :
    LET s == call[c] IN
    (s.pc = "thrown" /\ Len(s.log) = 3)
      => /\ s.thrown = RecordedError(s, 3)
         /\ s.thrown.id = 3
         /\ \A n \in 1..2 : s.thrown # RecordedError(s, n)

\* network, network, then a response that fails the shape check
C26_Witness ==
  \E c \in Calls :
    /\ call[c].pc = "thrown"
    /\ Len(call[c].log) = 3
    /\ ThrewKind(call[c], 1, {"network"})
    /\ ThrewKind(call[c], 2, {"network"})
    /\ ReturnedInvalid(call[c], 3)
    /\ call[c].thrown = InvalidSchemaError(3)

(***************************************************************************)
(* SpecLive: one invocation, every HTTP call settling and every timer       *)
(* firing.  The gateway's answers are one of each class of outcome.        *)
(***************************************************************************)
LiveStatuses == {200, 401, 429, 500}

LiveData ==
  {Data("no_choices", NoContent), Data("message", NoContent),
   Data("message", TextContent(<<"h">>)),
   Data("message", JsonContent(Response(Hi, Undef, Undef, Undef))),
   Data("message", JsonContent(Response(Str(<<>>), Undef, Undef, Undef))),
   Data("message", JsonContent(Response(Hi, Null, Undef, Undef)))}

\* the pending fetch() or response.json() of call c settles
Settle(c) ==
  \/ FetchRejects(c)
  \/ FetchAborted(c)
  \/ \E status \in LiveStatuses : FetchResponds(c, status)
  \/ JsonRejects(c)
  \/ JsonAborted(c)
  \/ \E data \in LiveData : JsonResolves(c, data)

NextLive ==
  \E c \in Single :
    \/ Invoke(c)
    \/ Abort(c)
    \/ Settle(c)
    \/ TimerFires(c)

SpecLive ==
  /\ Init
  /\ [][NextLive]_vars
  /\ \A c \in Single : WF_vars(Settle(c)) /\ WF_vars(TimerFires(c))

NumSleep(tr) == Cardinality({i \in DOMAIN tr : tr[i].ev = "sleep"})

AttemptsBounded(s) ==
  /\ NumFetch(s.trace) <= 3
  /\ NumSleep(s.trace) <= 2
  /\ Finished(s) => NumFetch(s.trace) >= 1
  /\ NumFetch(s.trace) = 3 => Segment(s.trace, 3) = <<>>
  /\ \A i \in DOMAIN s.trace : s.trace[i].ms # 4000

\* C27: when every HTTP call settles, an invoked translate eventually
\* returns or throws; it makes between 1 and 3 HTTP attempts and at most 2
\* backoff sleeps, and no sleep follows the third attempt
C27_Terminates ==
  /\ [](\A c \in Calls : AttemptsBounded(call[c]))
  /\ \A c \in Calls : (call[c].pc # "idle") ~> Finished(call[c])

\* three failed attempts with the two sleeps between them
C27_Witness ==
  \E c \in Calls :
    /\ call[c].pc = "thrown"
    /\ call[c].trace = RetryCeilingTrace

\* C28: when the retry loop ends without returning, a last error has been
\* recorded, so the synthetic unknown error is never what translate throws
C28_LastErrorRecorded ==
  \A c \in Calls :
    LET s == call[c] IN
    s.pc = "thrown"
      => /\ s.lastError # NullError
         /\ s.thrown = s.lastError
         /\ s.thrown.message # "Translation failed after multiple attempts"

\* the loop ended by its condition after three schema-invalid responses
C28_Witness ==
  \E c \in Calls :
    /\ call[c].pc = "thrown"
    /\ call[c].attempt = MAX_RETRIES + 1
    /\ \A n \in 1..3 : ReturnedInvalid(call[c], n)
    /\ call[c].thrown = InvalidSchemaError(3)

\* the translate() calls of the interface that have not returned or thrown
Outstanding == {c \in Calls : call[c].pc # "idle" /\ ~Finished(call[c])}

MaxSubmits == 2

EmptyStorage ==
  [apiKey |-> Null, selectedModel |-> Null, languagePrefs |-> Null]

SampleKey == Str(<<"k">>)
DefaultPrefs == Str(<<"a", "u", "t", "o">>)

AppBodies ==
  {Body("undefined", <<>>), Body("array", <<>>),
   Body("array", <<Entry(Str(<<"a">>), Undef, Undef, Undef)>>),
   Body("array", <<Entry(Str(<<"b">>), Undef, Undef, Undef),
                   Entry(Str(<<"a">>), Undef, Undef, Undef)>>)}

\* what the awaited fetchModels(apiKey) can settle with
FetchModelsOutcomes ==
  {fetchModelsData(b) : b \in AppBodies}
    \cup {fetchModelsRejected(TransportFailure(0)), fetchModelsNotOk(401)}

\* the state after the first render and its effects, for a given storage:
\* a stored key is loaded, TranslationInterface mounts and saves the
\* language preferences, and the fetchModels effect starts
InitApp(storage) ==
  IF Truthy(storage.apiKey)
    THEN [apiKey |-> storage.apiKey, hasValidKey |-> TRUE,
          availableModels |-> <<>>, selectedModel |-> Str(<<>>),
          storage |-> [storage EXCEPT !.languagePrefs = DefaultPrefs],
          inflight |-> 1, submits |-> 0, cleared |-> FALSE]
    ELSE [apiKey |-> Null, hasValidKey |-> FALSE,
          availableModels |-> <<>>, selectedModel |-> Str(<<>>),
          storage |-> storage, inflight |-> 0, submits |-> 0,
          cleared |-> FALSE]

InitAppSpec ==
  /\ call = [c \in Calls |-> InitCall]
  /\ pure = PureOff
  /\ \E key \in {Null, SampleKey}, model \in {Null, Str(<<"a">>)} :
       ui = InitApp([apiKey |-> key, selectedModel |-> model,
                     languagePrefs |-> Null])

\* handleApiKeySubmit, from the gate shown while there is no valid key; the
\* render that follows mounts TranslationInterface, whose effect saves the
\* language preferences, and runs the fetchModels effect for the new key
HandleApiKeySubmit ==
  /\ ~ui.hasValidKey
  /\ ui.submits < MaxSubmits
  /\ ui' = [ui EXCEPT
       !.storage = [@ EXCEPT !.apiKey = SampleKey,
                             !.languagePrefs = DefaultPrefs],
       !.apiKey = SampleKey,
       !.hasValidKey = TRUE,
       !.inflight = @ + 1,
       !.submits = @ + 1,
       !.cleared = FALSE]
  /\ UNCHANGED <<call, pure>>

\* the continuation of the fetchModels effect after its await
FetchModelsEffectSettles(outcome) ==
  /\ ui.inflight > 0
  /\ LET models == outcome.models
         storedModel == ui.storage.selectedModel
         u == [ui EXCEPT !.inflight = @ - 1]
     IN ui' =
          IF outcome.kind = "throw" THEN u
          ELSE IF /\ Truthy(storedModel)
                  /\ \E i \in DOMAIN models : models[i].id = storedModel
            THEN [u EXCEPT !.availableModels = models,
                           !.selectedModel = storedModel]
          ELSE IF Len(models) > 0
            THEN [u EXCEPT !.availableModels = models,
                           !.selectedModel = models[1].id,
                           !.storage.selectedModel = models[1].id]
          ELSE [u EXCEPT !.availableModels = models]
  /\ UNCHANGED <<call, pure>>

\* handleClearApiKey, from the settings of TranslationInterface
HandleClearApiKey ==
  /\ ui.hasValidKey
  /\ ui' = [ui EXCEPT !.storage.apiKey = Null, !.apiKey = Null,
                      !.hasValidKey = FALSE, !.availableModels = <<>>,
                      !.selectedModel = Str(<<>>)]
  /\ UNCHANGED <<call, pure>>

\* handleClearAllData, from the settings of TranslationInterface
HandleClearAllData ==
  /\ ui.hasValidKey
  /\ ui' = [ui EXCEPT !.storage = EmptyStorage, !.apiKey = Null,
                      !.hasValidKey = FALSE, !.availableModels = <<>>,
                      !.selectedModel = Str(<<>>), !.cleared = TRUE]
  /\ UNCHANGED <<call, pure>>

\* handleModelChange, from the model selector
HandleModelChange(i) ==
  /\ ui.hasValidKey
  /\ i \in DOMAIN ui.availableModels
  /\ ui' = [ui EXCEPT !.selectedModel = ui.availableModels[i].id,
                      !.storage.selectedModel = ui.availableModels[i].id]
  /\ UNCHANGED <<call, pure>>

NextApp ==
  \/ HandleApiKeySubmit
  \/ \E outcome \in FetchModelsOutcomes : FetchModelsEffectSettles(outcome)
  \/ HandleClearApiKey
  \/ HandleClearAllData
  \/ \E i \in 1..2 : HandleModelChange(i)

SpecApp == InitAppSpec /\ [][NextApp]_vars

\* C30: after Clear All Data local storage holds none of the application's
\* keys until a new API key is submitted, even when a fetchModels call
\* started before the clear completes after it
C30_ClearedStorageStaysEmpty ==
  ui.cleared => ui.storage = EmptyStorage

====
